---- MODULE Spec2Model ----
(***************************************************************************)
(* Model of us_stockbot_push.py: the MA10/MA20 crossover detector, the     *)
(* per-day de-duplication ledger and the run loop of main.                 *)
(*                                                                         *)
(* Prices are natural numbers; a moving average is kept as the pair        *)
(* <<sum, window>> and compared by cross-multiplication, so no rounding of *)
(* the floating-point division enters the model.                           *)
(*                                                                         *)
(* Spec       runs of main, up to MaxRuns, starting without a state file   *)
(* SpecOnce   one run of main from any store it may find                   *)
(* SpecAdmit  de_dupe_signals called twice on a prior ledger               *)
(* SpecDetect build_signals_for over the market data of the model          *)
(* SpecFormat format_message over sequences of event lines                 *)
(* SpecMA     get_ma_yday_today over the histories of the model            *)
(***************************************************************************)
EXTENDS Integers, Sequences, FiniteSets, TLC

VARIABLES
    state,      \* the in-memory ledger of the run / the ledger handed to de_dupe_signals
    today,      \* the run's date string (a day number)
    h_code,     \* admit harness: the symbol de_dupe_signals is called for
    h_lines,    \* admit harness: the lines handed to de_dupe_signals
    h_prev,     \* admit harness: the ledger before the first call
    h_rets,     \* admit harness: the results returned by the calls made so far
    d_stage,    \* detector harness: "start", "fetched" or "built"
    d_code,     \* detector harness: the symbol
    d_latest,   \* detector harness: latest, as get_latest_and_prevclose returned it
    d_prev,     \* detector harness: prev_close, as get_latest_and_prevclose returned it
    d_ma20,     \* detector harness: (ma20_y, ma20_t)
    d_ma10,     \* detector harness: (ma10_y, ma10_t)
    d_lines,    \* detector harness: the lines build_signals_for returned
    store,      \* the content of STATE_FILE
    pc,         \* where main is: "idle" (no run in progress), "loop", "format", "send", "save"
    now_t,      \* the time of day of now, in seconds
    idx,        \* the position in codes of the symbol processed next
    all_signal_lines,   \* main's all_signal_lines
    messages,   \* main's messages
    m_i,        \* the position in messages of the message sent next
    runs,       \* the number of runs started so far
    outcome,    \* how the last run ended: "none", "skipped", "done", "fatal"
    fatalCause, \* which call raised out of main: "none", "fetch", "ledger"
    loaded,     \* the shape of the store the run loaded
    io,         \* calls of load_state and save_state in the run: counts and positions
    firstFailed,    \* the position of the first symbol of the run for which a fetch raised, or 0
    detected,   \* the number of lines build_signals_for returned in the run
    sendFailed, \* send_line returned False in the run
    handed,     \* the (symbol, key) pairs handed to the sink on the date today
    clean,      \* no pair was handed twice on one date while every load and save succeeded
    store0,     \* the content of STATE_FILE when the run started
    f_lines,    \* formatter harness: all_lines handed to format_message
    f_ts,       \* formatter harness: run_dt handed to format_message
    f_pc,       \* formatter harness: "call", "loop" or "done"
    f_i,        \* formatter harness: the position in all_lines of the line taken next
    f_buf,      \* formatter harness: the lines of buf
    f_out,      \* formatter harness: out, and at "done" the messages returned
    a_hist,     \* average harness: what the history call of get_ma_yday_today gives
    a_window,   \* average harness: window
    a_latest,   \* average harness: latest_price
    a_ma,       \* average harness: the pair get_ma_yday_today returned
    a_done      \* average harness: get_ma_yday_today was called

admitVars == <<h_code, h_lines, h_prev, h_rets>>
detectVars == <<d_stage, d_code, d_latest, d_prev, d_ma20, d_ma10, d_lines>>
runVars == <<store, pc, now_t, idx, all_signal_lines, messages, m_i, runs, outcome,
             fatalCause, loaded, io, firstFailed, detected, sendFailed, handed, clean, store0>>
formatVars == <<f_lines, f_ts, f_pc, f_i, f_buf, f_out>>
maVars == <<a_hist, a_window, a_latest, a_ma, a_done>>
vars == <<state, today, admitVars, detectVars, runVars, formatVars, maVars>>

----------------------------------------------------------------------------
(* Bounds of the model *)

\* number of symbols of the watch-list that are modelled
NumCodes == 2
\* number of calendar days
MaxDate == 2
\* prices are 1..MaxPrice
MaxPrice == 3
\* number of runs of main
MaxRuns == 2

Codes == 1..NumCodes
Dates == 1..MaxDate
\* node.get("date") of a node without a date
NoDate == 0

----------------------------------------------------------------------------
(* Event lines: f"{code}|{ma} <phrase>" *)

MAs == {"MA20", "MA10"}
Dirs == {"UP", "DOWN"}
Keys == {"MA10_UP", "MA10_DOWN", "MA20_UP", "MA20_DOWN"}
NoKey == "None"

\* the line text of one signal: the phrase is fixed by the direction
OutLine(code, sig) ==
    IF sig[2] = "UP"
    THEN [code |-> code, ma |-> sig[1], phrase |-> "UP_BUY"]
    ELSE [code |-> code, ma |-> sig[1], phrase |-> "DOWN_SELL"]

OutLines(code, signals) ==
    [i \in 1..Len(signals) |-> OutLine(code, signals[i])]

\* "<ma> <first half of the phrase>" in line
Contains(line, ma, dir) ==
    /\ line.ma = ma
    /\ line.phrase = (IF dir = "UP" THEN "UP_BUY" ELSE "DOWN_SELL")

\* the if/elif chain that recovers the key from the rendered line
KeyOfLine(line) ==
    IF Contains(line, "MA10", "UP") THEN "MA10_UP"
    ELSE IF Contains(line, "MA10", "DOWN") THEN "MA10_DOWN"
    ELSE IF Contains(line, "MA20", "UP") THEN "MA20_UP"
    ELSE IF Contains(line, "MA20", "DOWN") THEN "MA20_DOWN"
    ELSE NoKey

\* the signal lists build_signals_for can produce: MA20 first, then MA10
SignalLists ==
    {<<>>}
    \cup {<<<<"MA20", d>>>> : d \in Dirs}
    \cup {<<<<"MA10", d>>>> : d \in Dirs}
    \cup {<<<<"MA20", d>>, <<"MA10", e>>>> : d \in Dirs, e \in Dirs}

----------------------------------------------------------------------------
(* Market data *)

Prices == 1..MaxPrice
\* Python's None, a float NaN, and a call that raises
None == 0 - 1
NaN == 0 - 2
Raise == 0 - 3

\* "x is None or pd.isna(x)"
IsNa(x) == x = None \/ x = NaN

\* what tkr.fast_info gives for last_price and for previous_close
FastValues == Prices \cup {None, NaN, Raise}
\* what history(period="5d", interval="1m") gives: the last close, None for an empty frame
H1mValues == Prices \cup {None, Raise}
\* a history call: it raises, or gives the closes left after dropna(), oldest first
Closes(s) == [ok |-> TRUE, closes |-> s]
RaisedHist == [ok |-> FALSE, closes |-> <<>>]
\* what history(period="5d", interval="1d") gives
H1dValues == {RaisedHist} \cup {Closes(<<>>)} \cup {Closes(<<p>>) : p \in Prices}
             \cup {Closes(<<p, q>>) : p \in Prices, q \in Prices}

Rep(n, a) == [i \in 1..n |-> a]
\* what history(period="120d", interval="1d")["Close"].dropna() gives, oldest first:
\* a run of na closes at a followed by a run of nb closes at b
CloseSeqs == {Rep(na, a) \o Rep(nb, b) : na \in {0, 10, 11}, nb \in {0, 9, 10},
                                         a \in Prices, b \in Prices}

RECURSIVE SumSeq(_)
SumSeq(s) == IF s = <<>> THEN 0 ELSE Head(s) + SumSeq(Tail(s))

\* closes.tail(n)
TailN(s, n) == IF Len(s) <= n THEN s ELSE SubSeq(s, Len(s) - n + 1, Len(s))

----------------------------------------------------------------------------
(* get_latest_and_prevclose *)

\* fast is the pair (last_price, previous_close) of fast_info, either of which may raise;
\* h1m and h1d are the results of the two fallback history calls
\* (variant without the try blocks: a raising fetch leaves the function)
GetLatestAndPrevclosePropagate(fast, h1m, h1d) ==
    [raised |-> (fast[1] = Raise \/ fast[2] = Raise \/ h1m = Raise \/ ~h1d.ok),
     latest |-> None, prev_close |-> None]

GetLatestAndPrevclose(fast, h1m, h1d) ==
    LET \* the try block around fast_info: an exception leaves what was not yet assigned at None
        latest0 == IF fast[1] = Raise THEN None ELSE fast[1]
        prev0 == IF fast[1] = Raise \/ fast[2] = Raise THEN None ELSE fast[2]
        latest1 == IF IsNa(latest0)
                   THEN (IF h1m = Raise \/ h1m = None THEN latest0 ELSE h1m)
                   ELSE latest0
        prev1 == IF IsNa(prev0)
                 THEN (IF ~h1d.ok THEN prev0
                       ELSE IF Len(h1d.closes) >= 2 THEN h1d.closes[Len(h1d.closes) - 1]
                       ELSE IF Len(h1d.closes) >= 1 THEN h1d.closes[Len(h1d.closes)]
                       ELSE prev0)
                 ELSE prev0
    IN [raised |-> FALSE, latest |-> latest1, prev_close |-> prev1]

----------------------------------------------------------------------------
(* get_ma_yday_today: a moving average is <<sum, window>>; NoMA is None *)

NoMA == <<0, 0>>
MaIsNa(ma) == ma[2] = 0

\* p < ma and p > ma, for a price p and a moving average that is present
Below(p, ma) == p * ma[2] < ma[1]
Above(p, ma) == p * ma[2] > ma[1]

\* (variant whose ma_today sums closes.tail(window) in place of closes.tail(window - 1))
GetMaYdayTodayWholeTail(hist, window, latest_price) ==
    IF ~hist.ok THEN <<NoMA, NoMA>>
    ELSE IF Len(hist.closes) < window THEN <<NoMA, NoMA>>
    ELSE LET ma_yday == <<SumSeq(TailN(hist.closes, window)), window>>
             tail_n_1 == TailN(hist.closes, window)
         IN
         IF IsNa(latest_price) THEN <<ma_yday, NoMA>>
         ELSE IF Len(tail_n_1) < window - 1 THEN <<ma_yday, NoMA>>
         ELSE <<ma_yday, <<SumSeq(tail_n_1) + latest_price, window>>>>

\* hist is the result of history(period="120d", interval="1d")
GetMaYdayToday(hist, window, latest_price) ==
    IF ~hist.ok THEN <<NoMA, NoMA>>
    ELSE IF Len(hist.closes) < window THEN <<NoMA, NoMA>>
    ELSE LET ma_yday == <<SumSeq(TailN(hist.closes, window)), window>>
             tail_n_1 == TailN(hist.closes, window - 1)
         IN
         IF IsNa(latest_price) THEN <<ma_yday, NoMA>>
         ELSE IF Len(tail_n_1) < window - 1 THEN <<ma_yday, NoMA>>
         ELSE <<ma_yday, <<SumSeq(tail_n_1) + latest_price, window>>>>

----------------------------------------------------------------------------
(* build_signals_for *)

\* one window's if/elif
\* (variant with <= and >= in place of < and >)
WindowSignalNonStrict(kind, prev_close, latest, ma) ==
    IF ~IsNa(prev_close) /\ ~MaIsNa(ma[1]) /\ ~MaIsNa(ma[2]) /\ ~IsNa(latest)
    THEN IF ~Above(prev_close, ma[1]) /\ ~Below(latest, ma[2]) THEN <<<<kind, "UP">>>>
         ELSE IF ~Below(prev_close, ma[1]) /\ ~Above(latest, ma[2]) THEN <<<<kind, "DOWN">>>>
         ELSE <<>>
    ELSE <<>>

WindowSignal(kind, prev_close, latest, ma) ==
    IF ~IsNa(prev_close) /\ ~MaIsNa(ma[1]) /\ ~MaIsNa(ma[2]) /\ ~IsNa(latest)
    THEN IF Below(prev_close, ma[1]) /\ Above(latest, ma[2]) THEN <<<<kind, "UP">>>>
         ELSE IF Above(prev_close, ma[1]) /\ Below(latest, ma[2]) THEN <<<<kind, "DOWN">>>>
         ELSE <<>>
    ELSE <<>>

\* the signals list: the MA20 block, then the MA10 block
\* (variant in which a missing MA20 skips both blocks)
SignalsGuardedByMA20(prev_close, latest, ma20, ma10) ==
    IF MaIsNa(ma20[1]) \/ MaIsNa(ma20[2]) THEN <<>>
    ELSE WindowSignal("MA20", prev_close, latest, ma20)
         \o WindowSignal("MA10", prev_close, latest, ma10)

Signals(prev_close, latest, ma20, ma10) ==
    WindowSignal("MA20", prev_close, latest, ma20)
    \o WindowSignal("MA10", prev_close, latest, ma10)

\* the line text of one signal
\* (variant that renders the latest price into the line)
OutLinePriced(code, sig, latest) ==
    [code |-> code, ma |-> sig[1],
     phrase |-> IF sig[2] = "UP" THEN "UP_BUY" ELSE "DOWN_SELL", price |-> latest]

\* (variant whose lines carry the latest price)
BuildSignalsForPriced(code, latest, prev_close, ma20, ma10) ==
    LET signals == Signals(prev_close, latest, ma20, ma10) IN
    [i \in 1..Len(signals) |-> OutLinePriced(code, signals[i], latest)]

\* build_signals_for after its calls of get_latest_and_prevclose and get_ma_yday_today
BuildSignalsFor(code, latest, prev_close, ma20, ma10) ==
    OutLines(code, Signals(prev_close, latest, ma20, ma10))

Hists == {Closes(s) : s \in CloseSeqs} \cup {RaisedHist}

\* the results of get_ma_yday_today(code, window, latest) over the histories of the
\* model, each with whether the history call raised
MaCases(window, latest) ==
    {[ma |-> GetMaYdayToday(h, window, latest), failed |-> ~h.ok] : h \in Hists}

----------------------------------------------------------------------------
(* The ledger: { code: { 'date': ..., 'sent': { key: True } } } *)

AbsentNode == [kind |-> "absent", date |-> NoDate, sentIsDict |-> FALSE, sent |-> {}]
\* a value stored under a code that is not a dict (a number, null, a list)
NonDictNode == [kind |-> "nondict", date |-> NoDate, sentIsDict |-> FALSE, sent |-> {}]
\* the node de_dupe_signals writes back
NewNode(date, sent) == [kind |-> "dict", date |-> date, sentIsDict |-> TRUE, sent |-> sent]

\* the nodes the program itself writes
WrittenNodes == {NewNode(d, s) : d \in Dates, s \in SUBSET Keys}

EmptyLedger == [isDict |-> TRUE, map |-> [c \in Codes |-> AbsentNode]]

----------------------------------------------------------------------------
(* de_dupe_signals *)

\* the loop over the lines; acc is the pair (sent, fresh)
RECURSIVE DedupeLoop(_, _, _, _, _)
\* (variant without the reset: the keys of a node dated another day are kept)
DedupeLoopMerge(lines, i, last_date, day, acc) ==
    IF i > Len(lines) THEN acc
    ELSE LET key == KeyOfLine(lines[i]) IN
         IF key = NoKey THEN DedupeLoop(lines, i + 1, last_date, day, acc)
         ELSE IF key \notin acc.sent
              THEN DedupeLoop(lines, i + 1, last_date, day,
                      [sent |-> acc.sent \cup {key}, fresh |-> Append(acc.fresh, lines[i])])
              ELSE DedupeLoop(lines, i + 1, last_date, day, acc)

DedupeLoop(lines, i, last_date, day, acc) ==
    IF i > Len(lines) THEN acc
    ELSE LET key == KeyOfLine(lines[i])
             \* "if last_date != today: sent = {}" runs for every keyed line
             sent1 == IF last_date # day THEN {} ELSE acc.sent
         IN
         IF key = NoKey THEN DedupeLoop(lines, i + 1, last_date, day, acc)
         ELSE IF key \notin sent1
              THEN DedupeLoop(lines, i + 1, last_date, day,
                      [sent |-> sent1 \cup {key}, fresh |-> Append(acc.fresh, lines[i])])
              ELSE DedupeLoop(lines, i + 1, last_date, day,
                      [sent |-> sent1, fresh |-> acc.fresh])

\* (variant that writes back a ledger holding the node of this symbol alone)
DeDupeSignalsClobber(st, day, code, lines) ==
    IF lines = <<>>
    THEN [raised |-> FALSE, state |-> st, fresh |-> <<>>]
    ELSE IF ~st.isDict \/ st.map[code].kind = "nondict"
    THEN [raised |-> TRUE, state |-> st, fresh |-> <<>>]
    ELSE LET node == st.map[code]
             last_date == node.date
             sent == IF node.sentIsDict THEN node.sent ELSE {}
             r == DedupeLoop(lines, 1, last_date, day, [sent |-> sent, fresh |-> <<>>])
         IN
         [raised |-> FALSE,
          state |-> [isDict |-> TRUE,
                     map |-> [c \in Codes |-> IF c = code THEN NewNode(day, r.sent)
                                                         ELSE AbsentNode]],
          fresh |-> r.fresh]

\* the result of a call: raised (AttributeError), the ledger after it, the lines returned
DeDupeSignals(st, day, code, lines) ==
    IF lines = <<>>
    THEN [raised |-> FALSE, state |-> st, fresh |-> <<>>]
    ELSE IF ~st.isDict \/ st.map[code].kind = "nondict"
    THEN [raised |-> TRUE, state |-> st, fresh |-> <<>>]
    ELSE LET node == st.map[code]
             last_date == node.date
             sent == IF node.sentIsDict THEN node.sent ELSE {}
             r == DedupeLoop(lines, 1, last_date, day, [sent |-> sent, fresh |-> <<>>])
         IN
         IF r.fresh # <<>> \/ last_date # day
         THEN [raised |-> FALSE,
               state |-> [st EXCEPT !.map[code] = NewNode(day, r.sent)],
               fresh |-> r.fresh]
         ELSE [raised |-> FALSE, state |-> st, fresh |-> r.fresh]

----------------------------------------------------------------------------
(* The outcomes of build_signals_for over all market data of the model *)

\* a fetch of get_latest_and_prevclose that was made raised
FetchFailed(fast, h1m, h1d) ==
    LET latest0 == IF fast[1] = Raise THEN None ELSE fast[1]
        prev0 == IF fast[1] = Raise \/ fast[2] = Raise THEN None ELSE fast[2]
    IN \/ fast[1] = Raise
       \/ fast[2] = Raise
       \/ IsNa(latest0) /\ h1m = Raise
       \/ IsNa(prev0) /\ ~h1d.ok

\* the results of get_latest_and_prevclose, each with whether a fetch raised
FetchOutcomes ==
    {[r |-> GetLatestAndPrevclose(<<fl, fp>>, h1m, h1d),
      failed |-> FetchFailed(<<fl, fp>>, h1m, h1d)] :
        fl \in FastValues, fp \in FastValues, h1m \in H1mValues, h1d \in H1dValues}

\* the signals of one symbol, with whether a fetch raised and whether the exception
\* left build_signals_for
SymbolOutcomes ==
    UNION {
        {[sigs |-> Signals(f.r.prev_close, f.r.latest, m20.ma, m10.ma),
          failed |-> (f.failed \/ m20.failed \/ m10.failed),
          raised |-> f.r.raised] :
              m20 \in MaCases(20, f.r.latest), m10 \in MaCases(10, f.r.latest)}
        : f \in FetchOutcomes}

----------------------------------------------------------------------------
(* within_session *)

MARKET_START == 77400
MARKET_END == 10800
ALLOW_OUTSIDE_WINDOW == FALSE

WithinSession(t) ==
    IF MARKET_END < MARKET_START
    THEN (t >= MARKET_START) \/ (t <= MARKET_END)
    ELSE MARKET_START <= t /\ t <= MARKET_END

\* times of day at which a run is triggered: 02:00:00, 03:00:01, 21:29:59, 21:30:00
TimeSamples == {7200, 10801, 77399, 77400}

----------------------------------------------------------------------------
(* load_state, save_state *)

AbsentStore == [kind |-> "absent", val |-> EmptyLedger]
\* a file json.load cannot parse
GarbageStore == [kind |-> "garbage", val |-> EmptyLedger]
JsonStore(v) == [kind |-> "json", val |-> v]
\* parsable content that is not a mapping: a list, a string, a number, null
NonDictJson == [isDict |-> FALSE, map |-> [c \in Codes |-> AbsentNode]]
\* a mapping whose value for the first symbol is not a dict
BadNodeJson == [isDict |-> TRUE,
                map |-> [c \in Codes |-> IF c = 1 THEN NonDictNode ELSE AbsentNode]]
\* a mapping whose value for the last symbol is not a dict
BadLastNodeJson == [isDict |-> TRUE,
                    map |-> [c \in Codes |-> IF c = NumCodes THEN NonDictNode ELSE AbsentNode]]
\* a mapping whose node for the first symbol has a 'sent' that is not a dict
BadSentJson == [isDict |-> TRUE,
                map |-> [c \in Codes |->
                           IF c = 1
                           THEN [kind |-> "dict", date |-> 1, sentIsDict |-> FALSE, sent |-> {}]
                           ELSE AbsentNode]]

LoadState(st) ==
    IF st.kind = "absent" THEN EmptyLedger
    ELSE IF st.kind = "garbage" THEN EmptyLedger
    ELSE st.val

\* ok: the write and the rename succeeded; otherwise the file is left as it was
SaveState(st, v, ok) == IF ok THEN JsonStore(v) ELSE st

StoreShape(st) ==
    IF st.kind # "json" THEN st.kind
    ELSE IF ~st.val.isDict THEN "nondict"
    ELSE IF \E c \in Codes : st.val.map[c].kind = "nondict" THEN "badnode"
    ELSE IF \E c \in Codes : st.val.map[c].kind = "dict" /\ ~st.val.map[c].sentIsDict
         THEN "badsent"
    ELSE "ok"

\* a ledger an earlier run wrote
WrittenJson == [isDict |-> TRUE,
                map |-> [c \in Codes |-> IF c = 1 THEN NewNode(1, {"MA20_UP"}) ELSE AbsentNode]]

\* the stores a run may find
InitStores == {AbsentStore, GarbageStore, JsonStore(NonDictJson),
               JsonStore(BadNodeJson), JsonStore(BadLastNodeJson), JsonStore(BadSentJson),
               JsonStore(WrittenJson)}

----------------------------------------------------------------------------
(* send_line *)

\* env: LINE_CHANNEL_TOKEN and LINE_TO are set; resp: what requests.post did
Responses == {"200", "other", "exception"}
SendLine(env, resp) ==
    IF ~env THEN FALSE
    ELSE IF resp = "exception" THEN FALSE
    ELSE resp = "200"

----------------------------------------------------------------------------
(* format_message: a message is its header and its lines *)

\* len of the longest ticker of CODES
CodeLen == 4
\* len("【MA10/MA20 跨日突破訊號】") + len of the "%Y-%m-%d %H:%M:%S %Z" timestamp
HeaderLen == 41
\* the size ceiling of one message
Ceiling == 900
\* len of the shortest ticker of CODES
ShortCodeLen == 2
\* len of a line: code, the bar, the 4 letters of the kind, the 8 characters of the phrase;
\* the symbols of odd position stand for the long tickers, the others for the short ones
\* (two lines per symbol of the 22 of CODES stay under the ceiling: 41 + 44 * 18 = 833)
LineLen(line) == (IF line.code % 2 = 1 THEN CodeLen ELSE ShortCodeLen) + 1 + 4 + 8

\* the sum of the len of the lines lo..hi
RECURSIVE SumLen(_, _, _)
SumLen(lines, lo, hi) ==
    IF lo > hi THEN 0
    ELSE IF lo = hi THEN LineLen(lines[lo])
    ELSE LET mid == (lo + hi) \div 2 IN SumLen(lines, lo, mid) + SumLen(lines, mid + 1, hi)

\* len("\n".join(lines)) of a message holding the header and these lines
JoinedLen(lines) == HeaderLen + Len(lines) + SumLen(lines, 1, Len(lines))

Message(ts, lines) == [header |-> ts, lines |-> lines]

\* (variant whose test leaves the header out of len(buf))
FormatBodyHeaderUncounted(ts, line, acc) ==
    IF JoinedLen(acc.buf) - HeaderLen + 1 + LineLen(line) > Ceiling
    THEN [buf |-> <<line>>, out |-> Append(acc.out, Message(ts, acc.buf))]
    ELSE [buf |-> Append(acc.buf, line), out |-> acc.out]

\* (variant that starts the next message with the header alone)
FormatBodyDropsLine(ts, line, acc) ==
    IF JoinedLen(acc.buf) + 1 + LineLen(line) > Ceiling
    THEN [buf |-> <<>>, out |-> Append(acc.out, Message(ts, acc.buf))]
    ELSE [buf |-> Append(acc.buf, line), out |-> acc.out]

\* (variant that closes a message while one more line would still fit)
FormatBodyEarly(ts, line, acc) ==
    IF JoinedLen(acc.buf) + 1 + 2 * LineLen(line) > Ceiling
    THEN [buf |-> <<line>>, out |-> Append(acc.out, Message(ts, acc.buf))]
    ELSE [buf |-> Append(acc.buf, line), out |-> acc.out]

\* one pass of "for line in all_lines"; acc.buf is the lines of the open message and
\* acc.out the messages closed so far
FormatBody(ts, line, acc) ==
    IF JoinedLen(acc.buf) + 1 + LineLen(line) > Ceiling
    THEN [buf |-> <<line>>, out |-> Append(acc.out, Message(ts, acc.buf))]
    ELSE [buf |-> Append(acc.buf, line), out |-> acc.out]

\* the loop that cuts the lines into messages, and the append of the open message
RECURSIVE FormatLoop(_, _, _, _, _)
FormatLoop(ts, all_lines, i, buf, out) ==
    IF i > Len(all_lines) THEN Append(out, Message(ts, buf))
    ELSE LET acc == FormatBody(ts, all_lines[i], [buf |-> buf, out |-> out]) IN
         FormatLoop(ts, all_lines, i + 1, acc.buf, acc.out)

\* (variant without the early return for no lines)
FormatMessageHeaderAlone(all_lines, ts) ==
    IF JoinedLen(all_lines) <= Ceiling THEN <<Message(ts, all_lines)>>
    ELSE FormatLoop(ts, all_lines, 1, <<>>, <<>>)

FormatMessage(all_lines, ts) ==
    IF all_lines = <<>> THEN <<>>
    ELSE IF JoinedLen(all_lines) <= Ceiling THEN <<Message(ts, all_lines)>>
    ELSE FormatLoop(ts, all_lines, 1, <<>>, <<>>)

----------------------------------------------------------------------------
(* main: one run is Start, a SymbolStep per symbol, Format, a SendStep per *)
(* message, Save.  The batches of BATCH_SIZE cover codes in order, so the  *)
(* two nested loops are one pass over codes.                               *)

PairsOf(lines) == {<<lines[i].code, KeyOfLine(lines[i])>> : i \in 1..Len(lines)}

NoIo == [loads |-> 0, saves |-> 0, loadAt |-> 0, saveAt |-> 0, loadOk |-> TRUE, saveOk |-> TRUE]

AdmitIdle ==
    /\ h_code = 1
    /\ h_lines = <<>>
    /\ h_prev = EmptyLedger
    /\ h_rets = <<>>

DetectIdle ==
    /\ d_stage = "start"
    /\ d_code = 1
    /\ d_latest = None
    /\ d_prev = None
    /\ d_ma20 = <<NoMA, NoMA>>
    /\ d_ma10 = <<NoMA, NoMA>>
    /\ d_lines = <<>>

FormatIdle ==
    /\ f_lines = <<>>
    /\ f_ts = <<1, 0>>
    /\ f_pc = "call"
    /\ f_i = 1
    /\ f_buf = <<>>
    /\ f_out = <<>>

MaIdle ==
    /\ a_hist = RaisedHist
    /\ a_window = 20
    /\ a_latest = None
    /\ a_ma = <<NoMA, NoMA>>
    /\ a_done = FALSE

RunIdle ==
    /\ store = AbsentStore
    /\ store0 = AbsentStore
    /\ pc = "idle"
    /\ now_t = 0
    /\ idx = 1
    /\ all_signal_lines = <<>>
    /\ messages = <<>>
    /\ m_i = 1
    /\ runs = 0
    /\ outcome = "none"
    /\ fatalCause = "none"
    /\ loaded = "none"
    /\ io = NoIo
    /\ firstFailed = 0
    /\ detected = 0
    /\ sendFailed = FALSE
    /\ handed = {}
    /\ clean = TRUE

\* before the first run: no state file
Init ==
    /\ RunIdle
    /\ state = EmptyLedger
    /\ today = 1
    /\ AdmitIdle
    /\ DetectIdle
    /\ FormatIdle
    /\ MaIdle

\* main up to the symbol loop: the trading-window guard, load_state, today
StartRun(limit) ==
    /\ pc = "idle"
    /\ runs < limit
    /\ \E d \in Dates, t \in TimeSamples :
          /\ runs = 0 \/ d > today \/ (d = today /\ t >= now_t)
          /\ today' = d
          /\ now_t' = t
          /\ handed' = IF runs > 0 /\ d = today THEN handed ELSE {}
          /\ IF ~WithinSession(t) /\ ~ALLOW_OUTSIDE_WINDOW
             THEN /\ outcome' = "skipped"
                  /\ pc' = "idle"
                  /\ state' = EmptyLedger
                  /\ loaded' = "none"
                  /\ io' = NoIo
             ELSE /\ outcome' = "none"
                  /\ pc' = "loop"
                  /\ state' = LoadState(store)
                  /\ loaded' = StoreShape(store)
                  /\ io' = [NoIo EXCEPT !.loads = 1, !.loadAt = 0,
                                        !.loadOk = (store.kind # "garbage")]
    /\ runs' = runs + 1
    /\ idx' = 1
    /\ all_signal_lines' = <<>>
    /\ messages' = <<>>
    /\ m_i' = 1
    /\ fatalCause' = "none"
    /\ firstFailed' = 0
    /\ detected' = 0
    /\ sendFailed' = FALSE
    /\ store0' = store
    /\ UNCHANGED <<store, clean, admitVars, detectVars, formatVars, maVars>>

\* (variant that saves the ledger after every symbol)
SymbolStepSaving ==
    /\ pc = "loop"
    /\ idx <= NumCodes
    /\ \E o \in SymbolOutcomes :
          LET code == idx
              lines == OutLines(code, o.sigs)
              r == DeDupeSignals(state, today, code, lines)
          IN
          /\ firstFailed' = IF o.failed /\ firstFailed = 0 THEN idx ELSE firstFailed
          /\ detected' = IF o.raised THEN detected ELSE detected + Len(lines)
          /\ IF o.raised
             THEN /\ pc' = "idle"
                  /\ outcome' = "fatal"
                  /\ fatalCause' = "fetch"
                  /\ UNCHANGED <<state, all_signal_lines, idx, store>>
             ELSE IF r.raised
             THEN /\ pc' = "idle"
                  /\ outcome' = "fatal"
                  /\ fatalCause' = "ledger"
                  /\ UNCHANGED <<state, all_signal_lines, idx, store>>
             ELSE /\ state' = r.state
                  /\ store' = SaveState(store, r.state, TRUE)
                  /\ all_signal_lines' = all_signal_lines \o r.fresh
                  /\ idx' = idx + 1
                  /\ pc' = IF idx = NumCodes THEN "format" ELSE "loop"
                  /\ UNCHANGED <<outcome, fatalCause>>
    /\ UNCHANGED <<today, now_t, messages, m_i, runs, loaded, io, sendFailed,
                   handed, clean, store0, admitVars, detectVars, formatVars, maVars>>

\* one pass of the loop body: build_signals_for, de_dupe_signals, extend
SymbolStep ==
    /\ pc = "loop"
    /\ idx <= NumCodes
    /\ \E o \in SymbolOutcomes :
          LET code == idx
              lines == OutLines(code, o.sigs)
              r == DeDupeSignals(state, today, code, lines)
          IN
          /\ firstFailed' = IF o.failed /\ firstFailed = 0 THEN idx ELSE firstFailed
          /\ detected' = IF o.raised THEN detected ELSE detected + Len(lines)
          /\ IF o.raised
             THEN /\ pc' = "idle"
                  /\ outcome' = "fatal"
                  /\ fatalCause' = "fetch"
                  /\ UNCHANGED <<state, all_signal_lines, idx>>
             ELSE IF r.raised
             THEN /\ pc' = "idle"
                  /\ outcome' = "fatal"
                  /\ fatalCause' = "ledger"
                  /\ UNCHANGED <<state, all_signal_lines, idx>>
             ELSE /\ state' = r.state
                  /\ all_signal_lines' = all_signal_lines \o r.fresh
                  /\ idx' = idx + 1
                  /\ pc' = IF idx = NumCodes THEN "format" ELSE "loop"
                  /\ UNCHANGED <<outcome, fatalCause>>
    /\ UNCHANGED <<store, today, now_t, messages, m_i, runs, loaded, io, sendFailed,
                   handed, clean, store0, admitVars, detectVars, formatVars, maVars>>

\* messages = format_message(all_signal_lines, run_dt=now)
Format ==
    /\ pc = "format"
    /\ messages' = FormatMessage(all_signal_lines, <<today, now_t>>)
    /\ m_i' = 1
    /\ pc' = IF messages' = <<>> THEN "save" ELSE "send"
    /\ UNCHANGED <<store, state, today, now_t, idx, all_signal_lines, runs, outcome,
                   fatalCause, loaded, io, firstFailed, detected, sendFailed, handed, clean,
                   store0, admitVars, detectVars, formatVars, maVars>>

\* one pass of "for m in messages": send_line(m), its result ignored
SendStep ==
    /\ pc = "send"
    /\ m_i <= Len(messages)
    /\ \E env \in BOOLEAN, resp \in Responses :
          sendFailed' = (sendFailed \/ ~SendLine(env, resp))
    /\ LET pairs == PairsOf(messages[m_i].lines) IN
          /\ handed' = IF io.loadOk THEN handed \cup pairs ELSE handed
          /\ clean' = (clean /\ ~(io.loadOk /\ pairs \cap handed # {}))
    /\ m_i' = m_i + 1
    /\ pc' = IF m_i = Len(messages) THEN "save" ELSE "send"
    /\ UNCHANGED <<store, state, today, now_t, idx, all_signal_lines, messages, runs,
                   outcome, fatalCause, loaded, io, firstFailed, detected,
                   store0, admitVars, detectVars, formatVars, maVars>>

\* Save, skipped when the run admitted nothing
SaveOnlyIfSignals ==
    /\ pc = "save"
    /\ \E ok \in BOOLEAN :
          IF all_signal_lines = <<>>
          THEN UNCHANGED <<store, io, handed>>
          ELSE /\ store' = SaveState(store, state, ok)
               /\ io' = [io EXCEPT !.saves = io.saves + 1, !.saveAt = idx - 1, !.saveOk = ok]
               /\ handed' = IF ok THEN handed ELSE {}
    /\ pc' = "idle"
    /\ outcome' = "done"
    /\ UNCHANGED <<state, today, now_t, idx, all_signal_lines, messages, m_i, runs,
                   fatalCause, loaded, firstFailed, detected, sendFailed, clean,
                   store0, admitVars, detectVars, formatVars, maVars>>

\* save_state(state), and the return of main
Save ==
    /\ pc = "save"
    /\ \E ok \in BOOLEAN :
          /\ store' = SaveState(store, state, ok)
          /\ io' = [io EXCEPT !.saves = io.saves + 1, !.saveAt = idx - 1, !.saveOk = ok]
          /\ handed' = IF ok THEN handed ELSE {}
    /\ pc' = "idle"
    /\ outcome' = "done"
    /\ UNCHANGED <<state, today, now_t, idx, all_signal_lines, messages, m_i, runs,
                   fatalCause, loaded, firstFailed, detected, sendFailed, clean,
                   store0, admitVars, detectVars, formatVars, maVars>>

Start == StartRun(MaxRuns)

Next == Start \/ SymbolStep \/ Format \/ SendStep \/ Save

\* any number of runs up to MaxRuns, the first finding no state file
Spec == Init /\ [][Next]_vars

\* one run, from any of the stores it may find
InitOnce ==
    /\ store \in InitStores
    /\ store0 = store
    /\ pc = "idle"
    /\ now_t = 0
    /\ idx = 1
    /\ all_signal_lines = <<>>
    /\ messages = <<>>
    /\ m_i = 1
    /\ runs = 0
    /\ outcome = "none"
    /\ fatalCause = "none"
    /\ loaded = "none"
    /\ io = NoIo
    /\ firstFailed = 0
    /\ detected = 0
    /\ sendFailed = FALSE
    /\ handed = {}
    /\ clean = TRUE
    /\ state = EmptyLedger
    /\ today = 1
    /\ AdmitIdle
    /\ DetectIdle
    /\ FormatIdle
    /\ MaIdle

StartOnce == StartRun(1)

NextOnce == StartOnce \/ SymbolStep \/ Format \/ SendStep \/ Save

SpecOnce == InitOnce /\ [][NextOnce]_vars

----------------------------------------------------------------------------
(* Harness of de_dupe_signals: one symbol, a prior ledger, an event list;  *)
(* the call is made twice with the same arguments.                         *)

\* the node of the symbol called for: absent, or written on any day with any sent set
HarnessNodes == {AbsentNode} \cup WrittenNodes
\* the node of every other symbol
OtherNodes == {AbsentNode, NewNode(1, {"MA20_UP"})}

MaxCalls == 2

InitAdmit ==
    /\ today \in Dates
    /\ h_code \in Codes
    /\ \E n \in HarnessNodes, o \in OtherNodes :
          state = [isDict |-> TRUE,
                   map |-> [c \in Codes |-> IF c = h_code THEN n ELSE o]]
    /\ h_prev = state
    /\ \E sigs \in SignalLists : h_lines = OutLines(h_code, sigs)
    /\ h_rets = <<>>
    /\ DetectIdle
    /\ RunIdle
    /\ FormatIdle
    /\ MaIdle

AdmitCall ==
    /\ Len(h_rets) < MaxCalls
    /\ LET r == DeDupeSignals(state, today, h_code, h_lines) IN
          /\ state' = r.state
          /\ h_rets' = Append(h_rets, r.fresh)
    /\ UNCHANGED <<today, h_code, h_lines, h_prev, detectVars, runVars, formatVars, maVars>>

NextAdmit == AdmitCall

SpecAdmit == InitAdmit /\ [][NextAdmit]_vars

----------------------------------------------------------------------------
(* Harness of build_signals_for: the fetch of latest and prev_close, then  *)
(* the two moving averages and the rules.                                  *)

InitDetect ==
    /\ d_stage = "start"
    /\ d_code \in Codes
    /\ d_latest = None
    /\ d_prev = None
    /\ d_ma20 = <<NoMA, NoMA>>
    /\ d_ma10 = <<NoMA, NoMA>>
    /\ d_lines = <<>>
    /\ state = EmptyLedger
    /\ today = 1
    /\ AdmitIdle
    /\ RunIdle
    /\ FormatIdle
    /\ MaIdle

DetectFetch ==
    /\ d_stage = "start"
    /\ \E fl \in FastValues, fp \in FastValues, h1m \in H1mValues,
          h1d \in H1dValues :
          LET r == GetLatestAndPrevclose(<<fl, fp>>, h1m, h1d) IN
             /\ d_stage' = (IF r.raised THEN "raised" ELSE "fetched")
             /\ d_latest' = r.latest
             /\ d_prev' = r.prev_close
    /\ UNCHANGED <<d_code, d_ma20, d_ma10, d_lines, state, today, admitVars, runVars, formatVars, maVars>>

DetectBuild ==
    /\ d_stage = "fetched"
    /\ \E m20 \in MaCases(20, d_latest), m10 \in MaCases(10, d_latest) :
          /\ d_ma20' = m20.ma
          /\ d_ma10' = m10.ma
          /\ d_lines' = BuildSignalsFor(d_code, d_latest, d_prev, m20.ma, m10.ma)
    /\ d_stage' = "built"
    /\ UNCHANGED <<d_code, d_latest, d_prev, state, today, admitVars, runVars, formatVars, maVars>>

NextDetect == DetectFetch \/ DetectBuild

SpecDetect == InitDetect /\ [][NextDetect]_vars

----------------------------------------------------------------------------
(* Harness of format_message: a sequence of event lines and a timestamp *)

\* the longest sequence of lines handed to format_message
MaxLines == 100

\* the lines of one or two symbols, as build_signals_for renders them
FormatBases ==
    {OutLines(c, <<<<"MA20", "UP">>>>) \o OutLines(e, t) :
        c \in {1, 2}, e \in {1, 2},
        t \in {<<>>, <<<<"MA20", "DOWN">>, <<"MA10", "DOWN">>>>}}

\* the first n lines of base repeated over and over
Cycle(base, n) == [i \in 1..n |-> base[((i - 1) % Len(base)) + 1]]

InitFormat ==
    /\ \E base \in FormatBases, n \in 0..MaxLines : f_lines = Cycle(base, n)
    /\ \E d \in Dates : f_ts = <<d, MARKET_START>>
    /\ f_pc = "call"
    /\ f_i = 1
    /\ f_buf = <<>>
    /\ f_out = <<>>
    /\ state = EmptyLedger
    /\ today = 1
    /\ AdmitIdle
    /\ DetectIdle
    /\ RunIdle
    /\ MaIdle

\* the body of format_message up to the loop: the two early returns
FormatEnter ==
    /\ f_pc = "call"
    /\ IF f_lines = <<>> \/ JoinedLen(f_lines) <= Ceiling
       THEN /\ f_out' = FormatMessage(f_lines, f_ts)
            /\ f_pc' = "done"
       ELSE /\ f_out' = <<>>
            /\ f_pc' = "loop"
    /\ UNCHANGED <<f_lines, f_ts, f_i, f_buf, state, today, admitVars, detectVars, runVars,
                   maVars>>

\* one pass of "for line in all_lines"
FormatIter ==
    /\ f_pc = "loop"
    /\ f_i <= Len(f_lines)
    /\ LET acc == FormatBody(f_ts, f_lines[f_i], [buf |-> f_buf, out |-> f_out]) IN
          /\ f_buf' = acc.buf
          /\ f_out' = acc.out
    /\ f_i' = f_i + 1
    /\ UNCHANGED <<f_lines, f_ts, f_pc, state, today, admitVars, detectVars, runVars, maVars>>

\* "if buf: out.append(buf)" and the return
FormatExit ==
    /\ f_pc = "loop"
    /\ f_i > Len(f_lines)
    /\ f_out' = FormatLoop(f_ts, f_lines, f_i, f_buf, f_out)
    /\ f_pc' = "done"
    /\ UNCHANGED <<f_lines, f_ts, f_i, f_buf, state, today, admitVars, detectVars, runVars,
                   maVars>>

NextFormat == FormatEnter \/ FormatIter \/ FormatExit

SpecFormat == InitFormat /\ [][NextFormat]_vars

----------------------------------------------------------------------------
(* Harness of get_ma_yday_today: one history, one window, one latest price *)

\* the windows main's callee build_signals_for asks for
Windows == {10, 20}
\* latest_price as build_signals_for hands it on: a price, None or NaN
MaLatests == Prices \cup {None, NaN}

InitMA ==
    /\ a_hist \in Hists
    /\ a_window \in Windows
    /\ a_latest \in MaLatests
    /\ a_ma = <<NoMA, NoMA>>
    /\ a_done = FALSE
    /\ state = EmptyLedger
    /\ today = 1
    /\ AdmitIdle
    /\ DetectIdle
    /\ RunIdle
    /\ FormatIdle

MaCall ==
    /\ ~a_done
    /\ a_ma' = GetMaYdayToday(a_hist, a_window, a_latest)
    /\ a_done' = TRUE
    /\ UNCHANGED <<a_hist, a_window, a_latest, state, today, admitVars, detectVars, runVars,
                   formatVars>>

NextMA == MaCall

SpecMA == InitMA /\ [][NextMA]_vars

----------------------------------------------------------------------------
(* Properties of main *)

Running == pc \in {"loop", "format", "send", "save"}
HasLineOf(code) == \E i \in 1..Len(all_signal_lines) : all_signal_lines[i].code = code
CorruptShapes == {"absent", "garbage", "nondict", "badnode", "badsent"}

\* C1: over the runs of one date whose load and save succeed, every (symbol, key)
\* pair is in the lines handed to the sink at most once.
C1_AtMostOncePerDay == clean

\* C7: a fetch that raises for a symbol never ends the run: no exception leaves
\* build_signals_for, the run goes on while it is in progress, and a run that
\* completes after the failure has processed every symbol, formatted, offered every
\* message and saved. (The only exception that leaves main is the one de_dupe_signals
\* raises on a ledger that is not of the expected shape.)
C7_FetchFailureIsolated ==
    /\ fatalCause # "fetch"
    /\ (firstFailed # 0 /\ Running) => ENABLED NextOnce
    /\ (firstFailed # 0 /\ outcome = "fatal") =>
          (fatalCause = "ledger" /\ loaded \in {"nondict", "badnode"})
    /\ (firstFailed # 0 /\ outcome = "done") =>
          /\ idx = NumCodes + 1
          /\ messages = FormatMessage(all_signal_lines, <<today, now_t>>)
          /\ m_i = Len(messages) + 1
          /\ io.saves = 1

\* C7 witness: the fetch of the first symbol raised, a later symbol fired, and the
\* run sent and saved.
C7_Witness ==
    /\ outcome = "done"
    /\ firstFailed = 1
    /\ ~HasLineOf(1)
    /\ HasLineOf(NumCodes)
    /\ m_i = 2
    /\ io.saves = 1 /\ io.saveOk

\* C8: a run that passed the guard loads the ledger once, before the first symbol,
\* and saves it once, after the last symbol and not before, whether or not a signal
\* fired.
C8_LoadOnceSaveOnce ==
    /\ Running => (io.loads = 1 /\ io.loadAt = 0 /\ io.saves = 0)
    /\ outcome = "done" =>
          /\ io.loads = 1
          /\ io.loadAt = 0
          /\ io.saves = 1
          /\ io.saveAt = NumCodes

\* C8 witness: a completed run in which no line was built, and that saved.
C8_Witness ==
    /\ outcome = "done"
    /\ detected = 0
    /\ io.saves = 1 /\ io.saveOk
    /\ store = JsonStore(state)

\* C9: when send_line failed for a message the run still completes, every message
\* was offered, and the saved ledger marks the key of every admitted event as sent
\* today.
C9_SendFailureKeepsMarks ==
    (outcome = "done" /\ sendFailed /\ io.saveOk) =>
        /\ m_i = Len(messages) + 1
        /\ store.kind = "json"
        /\ \A p \in PairsOf(all_signal_lines) :
              /\ store.val.map[p[1]].date = today
              /\ p[2] \in store.val.map[p[1]].sent

\* C10: a run that found a missing or corrupt store does not fail, and admits every
\* line that was built.
C10_CorruptStoreIsEmptyLedger ==
    loaded \in CorruptShapes =>
        /\ outcome # "fatal"
        /\ outcome = "done" => Len(all_signal_lines) = detected

\* C11: a run that ends with an uncaught exception leaves the store exactly as it
\* found it, and so does every step of a run before its final save: the admissions
\* made in memory are not persisted.
C11_FatalKeepsStore ==
    (Running \/ outcome = "fatal") => store = store0

\* C11 witness: a run ended with an exception after it had admitted lines in memory.
C11_Witness ==
    /\ outcome = "fatal"
    /\ all_signal_lines # <<>>
    /\ state # LoadState(store0)

\* C15: in a run that admitted no event the sink is never invoked: no message is
\* built, main never stands in the send loop, and no send_line call was made
\* (m_i - 1 is the number of send_line calls of the run).
C15_NoAdmissionNoSend ==
    (all_signal_lines = <<>> /\ (Running \/ outcome = "done")) =>
        /\ messages = <<>>
        /\ pc # "send"
        /\ m_i = 1

\* C15 witness: a run went through to its end with events detected and none admitted.
C15_Witness ==
    /\ outcome = "done"
    /\ all_signal_lines = <<>>
    /\ detected > 0

\* C16: main performs a run only when the time of day in Taipei is within
\* 21:30-01:00 (01:00 is 3600 seconds after midnight).
C16_RunsOnlyUntil0100 ==
    Running => (now_t >= MARKET_START \/ now_t <= 3600)

----------------------------------------------------------------------------
(* Properties of de_dupe_signals, checked under SpecAdmit *)

KeysOf(lines) == {KeyOfLine(lines[i]) : i \in 1..Len(lines)}
PriorNode == h_prev.map[h_code]
NodeNow == state.map[h_code]

\* C2: calling de_dupe_signals twice in a row with the same today and the same event
\* set admits each event only in the first call: the second call returns nothing.
C2_SecondCallAdmitsNothing ==
    Len(h_rets) = 2 => h_rets[2] = <<>>

\* C5: date rollover. When the stored node of the symbol is absent or dated another
\* day, every event of the call is admitted, whether or not its key is in the stale
\* sent set, and a node written back holds today's date and only keys admitted by
\* this call.
C5_DateRollover ==
    (Len(h_rets) = 1 /\ PriorNode.date # today) =>
        /\ h_rets[1] = h_lines
        /\ NodeNow # PriorNode =>
              /\ NodeNow.date = today
              /\ NodeNow.sent \subseteq KeysOf(h_rets[1])

\* C5 witness: a stale node holding the key of an event of the call and a key of no
\* event of the call, after a call with two events.
C5_Witness ==
    /\ Len(h_rets) = 1
    /\ PriorNode.kind = "dict"
    /\ PriorNode.date # today
    /\ Len(h_lines) = 2
    /\ PriorNode.sent \cap KeysOf(h_lines) # {}
    /\ PriorNode.sent \ KeysOf(h_lines) # {}
    /\ NodeNow.date = today

\* C6: after a call with no events for a symbol whose node is absent or dated another
\* day, the ledger holds {date: today, sent: {}} for the symbol.
C6_EmptyCallStampsToday ==
    (Len(h_rets) >= 1 /\ h_lines = <<>> /\ PriorNode.date # today) =>
        NodeNow = NewNode(today, {})

\* C19: after a call that admits at least one event, the node of the symbol is dated
\* today and its sent set holds the key of every event the call admitted.
C19_AdmittedIsMarked ==
    (Len(h_rets) = 1 /\ h_rets[1] # <<>>) =>
        /\ NodeNow.date = today
        /\ KeysOf(h_rets[1]) \subseteq NodeNow.sent

\* C20: a call for a symbol leaves the node of every other symbol unchanged; when it
\* admits nothing and the node of the symbol is dated today it leaves that node
\* unchanged too; and a node dated today never loses a key.
C20_AdmitFrame ==
    [][(Len(h_rets') = Len(h_rets) + 1) =>
          /\ \A c \in Codes \ {h_code} : state'.map[c] = state.map[c]
          /\ (h_rets'[Len(h_rets')] = <<>> /\ state.map[h_code].date = today)
                 => state'.map[h_code] = state.map[h_code]
          /\ state.map[h_code].date = today
                 => state.map[h_code].sent \subseteq state'.map[h_code].sent]_vars

\* C20 witness: a call with events, all already sent today, was made while another
\* symbol has a node.
C20_Witness ==
    /\ Len(h_rets) = 1
    /\ h_lines # <<>>
    /\ h_rets[1] = <<>>
    /\ PriorNode.date = today
    /\ \E c \in Codes \ {h_code} : h_prev.map[c].kind = "dict"
    /\ state = h_prev

----------------------------------------------------------------------------
(* Properties of build_signals_for, checked under SpecDetect *)

Emitted(kind, dir) ==
    \E i \in 1..Len(d_lines) : d_lines[i] = OutLine(d_code, <<kind, dir>>)
EmittedCount(kind) ==
    Cardinality({i \in 1..Len(d_lines) : d_lines[i].ma = kind})
MaOf(kind) == IF kind = "MA20" THEN d_ma20 ELSE d_ma10
AllPresent(kind) ==
    /\ ~IsNa(d_prev)
    /\ ~MaIsNa(MaOf(kind)[1])
    /\ ~MaIsNa(MaOf(kind)[2])
    /\ ~IsNa(d_latest)
CrossUp(kind) ==
    AllPresent(kind) /\ Below(d_prev, MaOf(kind)[1]) /\ Above(d_latest, MaOf(kind)[2])
CrossDown(kind) ==
    AllPresent(kind) /\ Above(d_prev, MaOf(kind)[1]) /\ Below(d_latest, MaOf(kind)[2])
\* either comparison of the window is an equality
SomeEquality(kind) ==
    /\ AllPresent(kind)
    /\ \/ d_prev * MaOf(kind)[1][2] = MaOf(kind)[1][1]
       \/ d_latest * MaOf(kind)[2][2] = MaOf(kind)[2][1]

\* C3: for each window, (kind, UP) is emitted iff all four values are present and
\* prev_close < ma_yday and latest > ma_today; (kind, DOWN) iff all four are present
\* and prev_close > ma_yday and latest < ma_today; so at most one event per window,
\* and none when either comparison is an equality.
C3_CrossoverRules ==
    d_stage = "built" =>
        \A kind \in MAs :
            /\ Emitted(kind, "UP") <=> CrossUp(kind)
            /\ Emitted(kind, "DOWN") <=> CrossDown(kind)
            /\ EmittedCount(kind) <= 1
            /\ SomeEquality(kind) => EmittedCount(kind) = 0

\* C3 witness: MA20 fires UP while prev_close equals yesterday's MA10, which emits
\* nothing for MA10.
C3_Witness ==
    /\ d_stage = "built"
    /\ Emitted("MA20", "UP")
    /\ AllPresent("MA10")
    /\ d_prev * d_ma10[1][2] = d_ma10[1][1]
    /\ Above(d_latest, d_ma10[2])
    /\ EmittedCount("MA10") = 0

OtherKind(kind) == IF kind = "MA20" THEN "MA10" ELSE "MA20"

\* C4: a window with any of its four values absent emits nothing; the absence of a
\* moving average of one window does not suppress the other window, whose crossover
\* is still emitted; and the computation does not raise.
C4_AbsentSuppressesOnlyItsWindow ==
    /\ d_stage # "raised"
    /\ d_stage = "built" =>
          \A kind \in MAs :
              /\ ~AllPresent(kind) => EmittedCount(kind) = 0
              /\ (~AllPresent(kind) /\ CrossUp(OtherKind(kind)))
                     => Emitted(OtherKind(kind), "UP")
              /\ (~AllPresent(kind) /\ CrossDown(OtherKind(kind)))
                     => Emitted(OtherKind(kind), "DOWN")

\* C4 witness: yesterday's MA20 is absent and MA10 fires.
C4_Witness ==
    /\ d_stage = "built"
    /\ MaIsNa(d_ma20[1])
    /\ EmittedCount("MA10") = 1

----------------------------------------------------------------------------
(* Properties of get_ma_yday_today, checked under SpecMA *)

\* s[lo] + ... + s[hi]
RECURSIVE SumRange(_, _, _)
SumRange(s, lo, hi) == IF lo > hi THEN 0 ELSE s[hi] + SumRange(s, lo, hi - 1)

\* C17: with at least window closes and a latest price, window * yesterday is the sum
\* of the last window closes and window * today is the sum of the last window - 1
\* closes plus latest; with fewer than window closes both averages are absent; with
\* latest absent today's average is absent.
C17_MovingAverages ==
    a_done =>
        LET c == a_hist.closes
            n == Len(c)
            w == a_window
        IN
        /\ (a_hist.ok /\ n >= w /\ a_latest \in Prices) =>
              /\ a_ma[1] = <<SumRange(c, n - w + 1, n), w>>
              /\ a_ma[2] = <<SumRange(c, n - w + 2, n) + a_latest, w>>
        /\ (a_hist.ok /\ n < w) => a_ma = <<NoMA, NoMA>>
        /\ IsNa(a_latest) => a_ma[2] = NoMA

\* C17 witness: both averages were computed from a history longer than the window,
\* with a latest price that differs from the close that leaves the window of today.
C17_Witness ==
    /\ a_done
    /\ a_hist.ok
    /\ Len(a_hist.closes) > a_window
    /\ a_latest \in Prices
    /\ a_hist.closes[Len(a_hist.closes) - a_window + 1] # a_latest
    /\ a_ma[1] # NoMA
    /\ a_ma[2] # NoMA

\* A second evaluation of build_signals_for to compare with: its own latest and
\* prev_close, and both averages taken from one history of its own.
RefHists ==
    {Closes(Rep(11, a) \o Rep(10, b)) : a \in Prices, b \in Prices} \cup {Closes(<<>>)}
RefRuns ==
    {LET m20 == GetMaYdayToday(h, 20, l)
         m10 == GetMaYdayToday(h, 10, l)
     IN  [latest |-> l, prev_close |-> p, ma20 |-> m20, ma10 |-> m10,
          signals |-> Signals(p, l, m20, m10),
          lines |-> [c \in Codes |-> BuildSignalsFor(c, l, p, m20, m10)]] :
        l \in MaLatests, p \in MaLatests, h \in RefHists}
\* the evaluations that find the same (kind, direction) events as the one made
SameEvents ==
    LET signals == Signals(d_prev, d_latest, d_ma20, d_ma10) IN
    {y \in RefRuns : y.signals = signals}
Timestamps == {<<d, MARKET_START>> : d \in Dates}

\* C18: the messages are a function of the timestamp and of the (symbol, kind,
\* direction) events alone: an evaluation for the same symbol with other prices and
\* averages that finds the same events gives, under the same timestamp, the same
\* messages.
C18_MessagesIndependentOfPrices ==
    d_stage = "built" =>
        \A ts \in Timestamps :
            LET messages_made == FormatMessage(d_lines, ts) IN
            \A y \in SameEvents : FormatMessage(y.lines[d_code], ts) = messages_made

\* C18 witness: events were found, and another evaluation finds the same events from
\* another latest price, another prev_close and other averages.
C18_Witness ==
    /\ d_stage = "built"
    /\ d_lines # <<>>
    /\ \E y \in SameEvents :
          /\ y.latest # d_latest
          /\ y.prev_close # d_prev
          /\ y.ma20 # d_ma20
          /\ y.ma10 # d_ma10

----------------------------------------------------------------------------
(* Properties of format_message, checked under SpecFormat *)

\* the character length of the lines lo..hi joined under a header: every line of
\* len v adds v and a newline
ChunkLen(lines, lo, hi) ==
    LET count(v) == Cardinality({i \in lo..hi : LineLen(lines[i]) = v})
        a == CodeLen + 13
        b == ShortCodeLen + 13
    IN  HeaderLen + count(a) * (a + 1) + count(b) * (b + 1)

\* the character length of a message
TextLen(m) == ChunkLen(m.lines, 1, Len(m.lines))

\* the lines of the messages from i on, in message order
RECURSIVE LinesFrom(_, _)
LinesFrom(msgs, i) ==
    IF i > Len(msgs) THEN <<>> ELSE msgs[i].lines \o LinesFrom(msgs, i + 1)

\* the lines from lo on can be cut, in order, into at most k messages under the ceiling
RECURSIVE CanSplit(_, _, _)
CanSplit(lines, lo, k) ==
    IF lo > Len(lines) THEN TRUE
    ELSE IF k <= 0 THEN FALSE
    ELSE IF k = 1 THEN ChunkLen(lines, lo, Len(lines)) <= Ceiling
    ELSE \E hi \in lo..Len(lines) :
            /\ ChunkLen(lines, lo, hi) <= Ceiling
            /\ CanSplit(lines, hi + 1, k - 1)

\* C12: for a non-empty sequence of event lines, every message returned carries the
\* header of the timestamp and is at most 900 characters long.
C12_HeaderAndCeiling ==
    (f_pc = "done" /\ f_lines # <<>>) =>
        /\ f_out # <<>>
        /\ \A i \in 1..Len(f_out) :
              /\ f_out[i].header = f_ts
              /\ TextLen(f_out[i]) <= Ceiling

\* C12 witness: the lines were cut into several messages, one of them too full to
\* take another line.
C12_Witness ==
    /\ f_pc = "done"
    /\ Len(f_out) >= 2
    /\ \E i \in 1..Len(f_out) : TextLen(f_out[i]) + 1 + ShortCodeLen + 13 > Ceiling

\* C13: the lines of the messages returned, taken in message order without the
\* headers, are exactly the input sequence.
C13_LinesPreserved ==
    f_pc = "done" => LinesFrom(f_out, 1) = f_lines

\* C13 witness: lines of two symbols were cut into three messages.
C13_Witness ==
    /\ f_pc = "done"
    /\ Len(f_out) = 3
    /\ \E i, j \in 1..Len(f_lines) : f_lines[i].code # f_lines[j].code

\* C14: the messages returned are a cut of the lines into messages under the ceiling,
\* and no cut into fewer messages exists; for no lines nothing is returned.
C14_FewestMessages ==
    f_pc = "done" =>
        /\ f_lines = <<>> => f_out = <<>>
        /\ CanSplit(f_lines, 1, Len(f_out))
        /\ ~CanSplit(f_lines, 1, Len(f_out) - 1) \/ f_lines = <<>>

\* C14 witness: lines of different lengths needed three messages, the last of them
\* holding a single line.
C14_Witness ==
    /\ f_pc = "done"
    /\ Len(f_out) = 3
    /\ Len(f_out[3].lines) = 1
    /\ \E i, j \in 1..Len(f_lines) : LineLen(f_lines[i]) # LineLen(f_lines[j])

====
